---- MODULE Spec2Model ----
(***************************************************************************)
(* A state-machine model of slot_machine.py (AdvancedSlotMachine).         *)
(*                                                                         *)
(* The state is the object's fields (balance, progressive_jackpot, stats,  *)
(* game_state, symbol_pool), the save file, the position of the single     *)
(* thread of control inside run() / _play_single_spin() (pc), and the      *)
(* locals of _play_single_spin that are live at that position.             *)
(* _play_single_spin is split at its statements because an exception       *)
(* raised by _check_winning_lines leaves it half way: the steps are        *)
(* strictly sequential, nothing interleaves with them.                     *)
(***************************************************************************)
EXTENDS Integers, Sequences, FiniteSets

VARIABLES
    balance,              \* self.balance
    progressive_jackpot,  \* self.progressive_jackpot
    stats,                \* self.stats (GameStats)
    game_state,           \* self.game_state
    symbol_pool,          \* self.symbol_pool
    ill_typed,            \* the fields whose value is not an int (see load_game)
    save_file,            \* contents of GameConfig.SAVE_FILE
    final_save_failed,    \* the _save_game of run()'s finally failed to write
    pc,                   \* position of control in run() / _play_single_spin()
    lines,                \* local of _play_single_spin
    bet_per_line,         \* local of _play_single_spin
    total_bet,            \* local of _play_single_spin
    columns,              \* local of _play_single_spin
    winnings,             \* local of _play_single_spin
    winning_lines,        \* local of _play_single_spin
    is_jackpot,           \* local of _play_single_spin
    returned,             \* which return statement ended _play_single_spin
    raised,               \* the exception propagating out of run(), if any
    entry,                \* balance, jackpot and stats at the call of _play_single_spin
    run_start,            \* balance, jackpot and stats when run() was called
    deposited,            \* sum of the deposits made in this process run
    n_deposits            \* number of deposits made in this process run

vars == <<balance, progressive_jackpot, stats, game_state, symbol_pool, ill_typed,
          save_file, final_save_failed,
          pc, lines, bet_per_line, total_bet, columns, winnings, winning_lines,
          is_jackpot, returned, raised, entry, run_start, deposited, n_deposits>>

(***************************************************************************)
(* GameConfig                                                              *)
(***************************************************************************)
MAX_LINES == 5
ROWS == 3
COLS == 5
MAX_BET == 1000
MIN_BET == 1
DEFAULT_BALANCE == 100
STARTING_JACKPOT == 1000
JACKPOT_RESET == 1000
MIN_DEPOSIT == 1
MAX_DEPOSIT == 10000

\* SYMBOL_CONFIG in its insertion order: <<symbol, count_in_reel, payout_multiplier>>
SYMBOL_CONFIG ==
    << <<"diamond", 1, 50>>, <<"crown", 2, 25>>, <<"cherry", 3, 15>>,
       <<"lemon", 4, 10>>,   <<"bell", 5, 8>>,   <<"star", 6, 5>>,
       <<"grapes", 8, 3>>,   <<"orange", 10, 2>> >>

JACKPOT_SYMBOL == "diamond"

Symbols == {SYMBOL_CONFIG[i][1] : i \in 1..Len(SYMBOL_CONFIG)}

\* GameState: the members of the enum
GameState == {"menu", "playing", "paused", "quit"}

(***************************************************************************)
(* Bounds of the model (not program constants)                             *)
(***************************************************************************)
MaxSpins == 1       \* spins committed per process run
MaxDeposits == 1    \* deposits per process run

\* bet-per-line inputs tried, a subset of MIN_BET..MAX_BET
BetChoices == {50}
\* deposit inputs tried, a subset of MIN_DEPOSIT..MAX_DEPOSIT
DepositChoices == {200}
\* the symbols random.choice is let to pick in a draw (the rarest two, so that
\* both the jackpot line and the exhaustion of a symbol's copies happen)
DrawSymbols == {"diamond", "crown"}

(***************************************************************************)
(* Small helpers                                                           *)
(***************************************************************************)
Range(s) == {s[i] : i \in 1..Len(s)}

Count(x, s) == Cardinality({i \in 1..Len(s) : s[i] = x})

RECURSIVE Repeat(_, _)
\* [symbol] * count
Repeat(x, n) == IF n <= 0 THEN <<>> ELSE <<x>> \o Repeat(x, n - 1)

RECURSIVE SumSeq(_)
SumSeq(s) == IF s = <<>> THEN 0 ELSE Head(s) + SumSeq(Tail(s))

RECURSIVE Pow2(_)
Pow2(n) == IF n <= 0 THEN 1 ELSE 2 * Pow2(n - 1)

(***************************************************************************)
(* _generate_symbol_pool                                                   *)
(***************************************************************************)
RECURSIVE PoolOf(_)
\* self.symbol_pool.extend([symbol] * count) for each entry, in order
PoolOf(config) ==
    IF config = <<>> THEN <<>>
    ELSE Repeat(Head(config)[1], Head(config)[2]) \o PoolOf(Tail(config))

\* a pool with a second copy of the jackpot symbol
PoolWithTwoJackpotSymbols == <<JACKPOT_SYMBOL>> \o PoolOf(SYMBOL_CONFIG)

generate_symbol_pool == PoolOf(SYMBOL_CONFIG)

\* self.symbol_values[symbol]
symbol_values(symbol) ==
    LET i == CHOOSE j \in 1..Len(SYMBOL_CONFIG) : SYMBOL_CONFIG[j][1] = symbol
    IN  SYMBOL_CONFIG[i][3]

\* count_in_reel of a symbol
symbol_count(symbol) ==
    LET i == CHOOSE j \in 1..Len(SYMBOL_CONFIG) : SYMBOL_CONFIG[j][1] = symbol
    IN  SYMBOL_CONFIG[i][2]

(***************************************************************************)
(* int(total_bet * PROGRESSIVE_JACKPOT_CONTRIBUTION)                       *)
(*                                                                         *)
(* The factor 0.01 is the IEEE-754 double 0x1.47ae147ae147bp-7, that is    *)
(* 5764607523034235 * 2^-59.  total_bet * 0.01 is the exact product        *)
(* rounded to 53 significant bits (round half to even), and int()          *)
(* truncates it.  Numbers wider than a machine word are kept as sequences  *)
(* of 16-bit limbs, least significant first.                               *)
(***************************************************************************)
LimbBase == 65536
LimbBits == 16
DoubleMantissaBits == 53
\* the exponent of the double 0.01: value = mantissa * 2^-59
ContributionScaleBits == 59
\* 5764607523034235 = 20*2^48 + 31457*2^32 + 18350*2^16 + 5243
PROGRESSIVE_JACKPOT_CONTRIBUTION == <<5243, 18350, 31457, 20>>

RECURSIVE MulLimbs(_, _, _)
\* limbs * x + carry
MulLimbs(a, x, carry) ==
    IF a = <<>> THEN (IF carry = 0 THEN <<>> ELSE <<carry>>)
    ELSE LET p == Head(a) * x + carry
         IN  <<p % LimbBase>> \o MulLimbs(Tail(a), x, p \div LimbBase)

\* bit i (0 = least significant) of a limb sequence
BitAt(a, i) ==
    LET k == (i \div LimbBits) + 1
    IN  IF k > Len(a) THEN 0 ELSE (a[k] \div Pow2(i % LimbBits)) % 2

\* number of significant bits
BitLength(a) ==
    IF \A i \in 0..(LimbBits * Len(a) - 1) : BitAt(a, i) = 0 THEN 0
    ELSE 1 + CHOOSE i \in 0..(LimbBits * Len(a) - 1) :
                 /\ BitAt(a, i) = 1
                 /\ \A j \in (i + 1)..(LimbBits * Len(a) - 1) : BitAt(a, j) = 0

RECURSIVE BitsValue(_, _, _)
\* the integer made of bits lo..hi of a
BitsValue(a, lo, hi) ==
    IF hi < lo THEN 0 ELSE BitAt(a, lo) + 2 * BitsValue(a, lo + 1, hi)

\* int(float(x) * 0.01)
IntOfTimesContribution(x) ==
    LET p == MulLimbs(PROGRESSIVE_JACKPOT_CONTRIBUTION, x, 0)   \* exact product
        len == BitLength(p)
        s == len - DoubleMantissaBits            \* bits dropped by the rounding
        whole == BitsValue(p, ContributionScaleBits, len - 1)   \* floor of exact
        guard == IF s >= 1 THEN BitAt(p, s - 1) ELSE 0
        sticky == \E i \in 0..(s - 2) : BitAt(p, i) = 1
        roundUp == guard = 1 /\ (sticky \/ BitAt(p, s) = 1)
        \* rounding up carries into the integer part only through a run of ones
        carries == roundUp /\ \A i \in s..(ContributionScaleBits - 1) : BitAt(p, i) = 1
    IN  IF carries THEN whole + 1 ELSE whole

(***************************************************************************)
(* GameStats and persistence                                               *)
(***************************************************************************)
\* GameStats(): every field at its default
DefaultStats ==
    [total_spins |-> 0, total_bet |-> 0, total_winnings |-> 0,
     biggest_win |-> 0, jackpots_won |-> 0, sessions_played |-> 0]

\* the fields of GameStats
StatKeys == DOMAIN DefaultStats

\* the top-level keys of the save document
SaveKeys == {"balance", "progressive_jackpot", "stats"}

(***************************************************************************)
(* The JSON text of the save file.  A value of the document is a number    *)
(* (its decimal text), a string, or an object (a function from its keys to *)
(* values).  json.dump writes an int as its decimal digits; json.load      *)
(* makes an int of decimal digits, a str of a string, a dict of an object. *)
(***************************************************************************)
Digits == <<"0", "1", "2", "3", "4", "5", "6", "7", "8", "9">>

RECURSIVE NatToText(_)
NatToText(n) ==
    IF n < 10 THEN <<Digits[n + 1]>>
    ELSE NatToText(n \div 10) \o <<Digits[(n % 10) + 1]>>

\* the text json.dump writes for an int
IntToText(n) == IF n < 0 THEN <<"-">> \o NatToText(0 - n) ELSE NatToText(n)

DigitValue(c) == (CHOOSE i \in 1..Len(Digits) : Digits[i] = c) - 1

RECURSIVE TextToNat(_, _)
TextToNat(text, acc) ==
    IF text = <<>> THEN acc
    ELSE TextToNat(Tail(text), 10 * acc + DigitValue(Head(text)))

\* the int json.load makes of the text of a number
TextToInt(text) ==
    IF Head(text) = "-" THEN 0 - TextToNat(Tail(text), 0) ELSE TextToNat(text, 0)

NoMembers == <<>>

JsonNumber(n) == [type |-> "number", text |-> IntToText(n), members |-> NoMembers]

JsonString(chars) == [type |-> "string", text |-> chars, members |-> NoMembers]

JsonObject(members) == [type |-> "object", text |-> <<>>, members |-> members]

\* the save file does not exist
NoFile == [exists |-> FALSE, parses |-> FALSE, root |-> JsonObject(NoMembers)]

\* a file whose text is not JSON: json.load raises
UnparsableFile == [exists |-> TRUE, parses |-> FALSE, root |-> JsonObject(NoMembers)]

\* a file holding the JSON value `root`
JsonFile(root) == [exists |-> TRUE, parses |-> TRUE, root |-> root]

\* a save document that leaves the jackpot out
SaveDataWithoutJackpot(b, j, st) ==
    JsonFile(JsonObject(
        [balance |-> JsonNumber(b),
         stats |-> JsonObject([k \in StatKeys |-> JsonNumber(st[k])])]))

\* the document _save_game writes: every key present, every value an int
SaveData(b, j, st) ==
    JsonFile(JsonObject(
        [balance |-> JsonNumber(b),
         progressive_jackpot |-> JsonNumber(j),
         stats |-> JsonObject([k \in StatKeys |-> JsonNumber(st[k])])]))

\* a save file left by earlier sessions
EarlierSave ==
    SaveData(40, 1500,
             [total_spins |-> 120, total_bet |-> 50060, total_winnings |-> 50000,
              biggest_win |-> 1300, jackpots_won |-> 1, sessions_played |-> 4])

\* a save file not written by _save_game: {"progressive_jackpot": 0}
ForeignSave == JsonFile(JsonObject([progressive_jackpot |-> JsonNumber(0)]))

\* the save files a process started in this model may find: the values under
\* the keys are integers
InitialFiles == {NoFile, EarlierSave, ForeignSave}

\* stands in an integer variable for a Python object that is not an int; the
\* field holding it is listed in ill_typed
NotAnInt == 0

\* the Python object json.load makes of a value, as far as the fields hold it
PyValue(json) == IF json.type = "number" THEN TextToInt(json.text) ELSE NotAnInt

\* dict.get(key, default) on the members of an object
Get(members, key, default) ==
    IF key \in DOMAIN members THEN PyValue(members[key]) ELSE default

\* the keys of an object whose value is not a number
NonNumbers(members, keys) ==
    {k \in keys \cap DOMAIN members : members[k].type # "number"}

\* the fields set by __init__ before _load_game runs
Constructed ==
    [balance |-> DEFAULT_BALANCE, progressive_jackpot |-> STARTING_JACKPOT,
     stats |-> DefaultStats, ill_typed |-> {}]

\* _load_game: the fields after it, and which of them hold a non-integer.
\* An exception (json.load on bad text, .get on a value that is no dict) is
\* caught and leaves the fields assigned so far.
load_game(file) ==
    IF ~file.exists \/ ~file.parses \/ file.root.type # "object"
    THEN Constructed
    ELSE LET save_data == file.root.members
             b == Get(save_data, "balance", DEFAULT_BALANCE)
             j == Get(save_data, "progressive_jackpot", STARTING_JACKPOT)
             top == NonNumbers(save_data, {"balance", "progressive_jackpot"})
             stats_data == IF "stats" \in DOMAIN save_data THEN save_data.stats
                           ELSE JsonObject(NoMembers)
         IN  IF stats_data.type # "object"
             THEN [balance |-> b, progressive_jackpot |-> j,
                   stats |-> DefaultStats, ill_typed |-> top]
             ELSE [balance |-> b, progressive_jackpot |-> j,
                   stats |-> [k \in StatKeys |-> Get(stats_data.members, k, 0)],
                   ill_typed |-> top \cup NonNumbers(stats_data.members, StatKeys)]

\* the document _save_game builds from the fields
save_game == SaveData(balance, progressive_jackpot, stats)

\* balance, jackpot and statistics, as one value
Account == [balance |-> balance, progressive_jackpot |-> progressive_jackpot,
            stats |-> stats]

(***************************************************************************)
(* _generate_spin                                                          *)
(***************************************************************************)
\* a draw that forgets to remove the drawn instance
RemoveFirstSampledTwice(available, symbol) == available

RECURSIVE RemoveFirst(_, _)
\* available_symbols.remove(symbol): drops the first occurrence
RemoveFirst(available, symbol) ==
    IF available = <<>> THEN <<>>
    ELSE IF Head(available) = symbol THEN Tail(available)
    ELSE <<Head(available)>> \o RemoveFirst(Tail(available), symbol)

RECURSIVE Drawable(_, _)
\* whether the inner loop can produce `column` from `available`: each symbol is
\* one random.choice returned (an element of what is left), then removed
Drawable(available, column) ==
    IF column = <<>> THEN TRUE
    ELSE /\ Head(column) \in Range(available)
         /\ Drawable(RemoveFirst(available, Head(column)), Tail(column))

\* the columns one pass of the outer loop can produce: `rows` draws from a copy
\* of `pool`, the picks of random.choice limited to `pickable`
ColumnsFrom(pool, rows, pickable) ==
    {column \in [1..rows -> pickable] : Drawable(pool, column)}

\* the grids _generate_spin can return, [column][row]
generate_spin(pool) == [1..COLS -> ColumnsFrom(pool, ROWS, DrawSymbols)]

\* self.symbol_pool after _generate_spin: the draws work on copies
PoolAfterSpin(pool, grid) == pool

\* no grid drawn yet
NoGrid == <<>>

(***************************************************************************)
(* _check_winning_lines                                                    *)
(***************************************************************************)
\* the loop's state before its first iteration
NoWin == [total_winnings |-> 0, winning_lines |-> <<>>, is_jackpot |-> FALSE,
          error |-> "none"]

\* a line's winnings computed without the jackpot override
LineWinningsNoJackpot(first_symbol, bet, jackpot) ==
    symbol_values(first_symbol) * bet

\* a line's winnings read from the wrong half of the SYMBOL_CONFIG tuple
LineWinningsByCount(first_symbol, bet, jackpot) ==
    IF first_symbol = JACKPOT_SYMBOL THEN jackpot
    ELSE symbol_count(first_symbol) * bet

\* line_winnings of a winning line
LineWinnings(first_symbol, bet, jackpot) ==
    IF first_symbol = JACKPOT_SYMBOL THEN jackpot
    ELSE symbol_values(first_symbol) * bet

\* all(symbol == first_symbol for symbol in line_symbols), line 0-indexed
LineMatches(grid, line) ==
    \A col \in 1..COLS : grid[col][line + 1] = grid[1][line + 1]

RECURSIVE CheckLinesFrom(_, _, _, _, _, _)
\* the iterations line, line+1, ..., lines_bet-1 of the loop, from state acc
CheckLinesFrom(grid, lines_bet, bet, jackpot, line, acc) ==
    IF line >= lines_bet THEN acc
    ELSE IF line + 1 > Len(grid[1])
         THEN [acc EXCEPT !.error = "IndexError"]      \* columns[0][line]
    ELSE IF LineMatches(grid, line)
         THEN CheckLinesFrom(grid, lines_bet, bet, jackpot, line + 1,
                  [total_winnings |-> acc.total_winnings
                                      + LineWinnings(grid[1][line + 1], bet, jackpot),
                   winning_lines |-> Append(acc.winning_lines, line + 1),
                   is_jackpot |-> acc.is_jackpot \/ grid[1][line + 1] = JACKPOT_SYMBOL,
                   error |-> "none"])
    ELSE CheckLinesFrom(grid, lines_bet, bet, jackpot, line + 1, acc)

\* _check_winning_lines(columns, lines_bet, bet_per_line), reading
\* self.progressive_jackpot
check_winning_lines(grid, lines_bet, bet, jackpot) ==
    CheckLinesFrom(grid, lines_bet, bet, jackpot, 0, NoWin)

(***************************************************************************)
(* The state after construction                                            *)
(***************************************************************************)
\* the value of an int local that is not bound yet
None == -1

\* entry, outside _play_single_spin
NoEntry == [balance |-> 0, progressive_jackpot |-> 0, stats |-> DefaultStats]

\* the locals of _play_single_spin, none bound
LocalsUnbound ==
    /\ lines = None
    /\ bet_per_line = None
    /\ total_bet = None
    /\ columns = NoGrid
    /\ winnings = None
    /\ winning_lines = <<>>
    /\ is_jackpot = FALSE

\* AdvancedSlotMachine(): __init__ with the save file found at start
Init ==
    /\ save_file \in InitialFiles
    /\ final_save_failed = FALSE
    /\ balance = load_game(save_file).balance
    /\ progressive_jackpot = load_game(save_file).progressive_jackpot
    /\ stats = load_game(save_file).stats
    /\ game_state = "menu"
    /\ symbol_pool = generate_symbol_pool
    /\ ill_typed = {}
    /\ pc = "init"
    /\ LocalsUnbound
    /\ returned = "none"
    /\ raised = "none"
    /\ entry = NoEntry
    /\ run_start = NoEntry
    /\ deposited = 0
    /\ n_deposits = 0

object == <<balance, progressive_jackpot, stats, symbol_pool, ill_typed>>
locals == <<lines, bet_per_line, total_bet, columns, winnings, winning_lines,
            is_jackpot>>
ghosts == <<run_start, deposited, n_deposits>>
disk == <<save_file, final_save_failed>>

(***************************************************************************)
(* run() and _main_menu()                                                  *)
(***************************************************************************)
\* run(): self.stats.sessions_played += 1, then the loop
Run ==
    /\ pc = "init"
    /\ stats' = [stats EXCEPT !.sessions_played = @ + 1]
    /\ run_start' = Account
    /\ pc' = "loop"
    /\ UNCHANGED <<balance, progressive_jackpot, game_state, symbol_pool,
                   ill_typed, disk, locals, returned, raised, entry, deposited,
                   n_deposits>>

InMenu == pc = "loop" /\ game_state = "menu"

\* choice 1
MenuPlay ==
    /\ InMenu
    /\ game_state' = "playing"
    /\ UNCHANGED <<object, disk, pc, locals, returned, raised, entry, ghosts>>

\* choice 2: _get_deposit_amount() prompts
MenuDeposit ==
    /\ InMenu
    /\ n_deposits < MaxDeposits
    /\ pc' = "get_deposit_amount"
    /\ UNCHANGED <<object, game_state, disk, locals, returned, raised, entry,
                   ghosts>>

\* an amount in 1..10000 entered: `if amount: self.balance += amount`
DepositEntered ==
    /\ pc = "get_deposit_amount"
    /\ \E amount \in DepositChoices :
          /\ MIN_DEPOSIT <= amount /\ amount <= MAX_DEPOSIT
          /\ balance' = balance + amount
          /\ deposited' = deposited + amount
    /\ n_deposits' = n_deposits + 1
    /\ pc' = "loop"
    /\ UNCHANGED <<progressive_jackpot, stats, symbol_pool, ill_typed,
                   game_state, disk, locals, returned, raised, entry,
                   run_start>>

\* a cancelled prompt that credits the smallest deposit all the same
DepositCancelledCredits ==
    /\ pc = "get_deposit_amount"
    /\ balance' = balance + MIN_DEPOSIT
    /\ pc' = "loop"
    /\ UNCHANGED <<progressive_jackpot, stats, symbol_pool, ill_typed,
                   game_state, disk, locals, returned, raised, entry, ghosts>>

\* 'q' or Ctrl-C at the prompt: amount is None, `if amount:` skips the credit
DepositCancelled ==
    /\ pc = "get_deposit_amount"
    /\ pc' = "loop"
    /\ UNCHANGED <<object, game_state, disk, locals, returned, raised, entry,
                   ghosts>>

\* choices 3 and 4 viewed, or Ctrl-C at the menu prompt (choice is None): back
\* to the menu
MenuNoChange ==
    /\ InMenu
    /\ UNCHANGED vars

\* choices 3 and 4: Ctrl-C at "Press Enter to continue" reaches run()'s handler
MenuInterrupted ==
    /\ InMenu
    /\ pc' = "finally"
    /\ UNCHANGED <<object, game_state, disk, locals, returned, raised, entry,
                   ghosts>>

\* the file after _save_game: the document replaces it, or open / json.dump
\* raises (the file cannot be written), which is caught and reported as a
\* warning, and the file is as it was
SavedFile(written) == IF written THEN save_game ELSE save_file

\* choice 5
MenuSave ==
    /\ InMenu
    /\ \E written \in BOOLEAN : save_file' = SavedFile(written)
    /\ UNCHANGED <<object, game_state, final_save_failed, pc, locals, returned,
                   raised, entry, ghosts>>

\* choice 6
MenuQuit ==
    /\ InMenu
    /\ game_state' = "quit"
    /\ UNCHANGED <<object, disk, pc, locals, returned, raised, entry, ghosts>>

\* while self.game_state != GameState.QUIT ends
LoopExit ==
    /\ pc = "loop"
    /\ game_state = "quit"
    /\ pc' = "finally"
    /\ UNCHANGED <<object, game_state, disk, locals, returned, raised, entry,
                   ghosts>>

\* a finally block that leaves without calling _save_game
FinallyWithoutSave ==
    /\ pc = "finally"
    /\ pc' = "exited"
    /\ UNCHANGED <<object, game_state, disk, locals, returned, raised, entry,
                   ghosts>>

\* finally: self._save_game(); an exception still propagating goes to main()
Finally ==
    /\ pc = "finally"
    /\ \E written \in BOOLEAN :
          /\ save_file' = SavedFile(written)
          /\ final_save_failed' = ~written
    /\ pc' = "exited"
    /\ UNCHANGED <<object, game_state, locals, returned, raised, entry, ghosts>>

(***************************************************************************)
(* _play_single_spin(): the arithmetic of its statements                   *)
(***************************************************************************)
\* total_bet = lines * bet_per_line
TotalBet(n, bet) == n * bet

\* an affordability test that lets every bet through
CanAffordAlways(bet, bal) == TRUE

\* an affordability test that lends up to MAX_BET
CanAffordOnCredit(bet, bal) == ~(bet > bal + MAX_BET)

\* the negation of `total_bet > self.balance`
CanAfford(bet, bal) == ~(bet > bal)

\* a contribution that rounds to nearest instead of truncating
JackpotContributionRounded(bet) == (bet + 50) \div 100

\* int(total_bet * GameConfig.PROGRESSIVE_JACKPOT_CONTRIBUTION)
JackpotContribution(bet) == IntOfTimesContribution(bet)

\* statistics that forget the running maximum
StatsAfterWinLastWin(st, won, jackpot_hit) ==
    [st EXCEPT !.total_winnings = @ + won,
               !.biggest_win = won,
               !.jackpots_won = IF jackpot_hit THEN @ + 1 ELSE @]

\* a win that is credited without being added to total_winnings
StatsAfterWinUncounted(st, won, jackpot_hit) ==
    [st EXCEPT !.biggest_win = IF won > @ THEN won ELSE @,
               !.jackpots_won = IF jackpot_hit THEN @ + 1 ELSE @]

\* the statistics after the `if winnings > 0` block
StatsAfterWin(st, won, jackpot_hit) ==
    [st EXCEPT !.total_winnings = @ + won,
               !.biggest_win = IF won > @ THEN won ELSE @,
               !.jackpots_won = IF jackpot_hit THEN @ + 1 ELSE @]

\* a jackpot that is emptied when it is won
JackpotAfterWinEmptied(jackpot, jackpot_hit) ==
    IF jackpot_hit THEN 0 ELSE jackpot

\* self.progressive_jackpot after the `if winnings > 0` block
JackpotAfterWin(jackpot, jackpot_hit) ==
    IF jackpot_hit THEN JACKPOT_RESET ELSE jackpot

(***************************************************************************)
(* _play_single_spin(): its steps                                          *)
(***************************************************************************)
InSpinCall == pc = "loop" /\ game_state = "playing"

\* the frame of _play_single_spin is gone (it returned, or an exception left it)
LocalsDropped ==
    /\ lines' = None
    /\ bet_per_line' = None
    /\ total_bet' = None
    /\ columns' = NoGrid
    /\ winnings' = None
    /\ winning_lines' = <<>>
    /\ is_jackpot' = FALSE

\* leaving _play_single_spin through one of its return statements
Return(how) ==
    /\ returned' = how
    /\ pc' = "spin_return"
    /\ LocalsDropped

\* if self.balance <= 0: return True
SpinOutOfMoney ==
    /\ InSpinCall
    /\ balance <= 0
    /\ entry' = Account
    /\ Return("out_of_money")
    /\ UNCHANGED <<object, game_state, disk, raised, ghosts>>

\* lines = self._get_number_of_lines(), a number entered
GetLines ==
    /\ InSpinCall
    /\ balance > 0
    /\ entry' = Account
    /\ \E n \in 1..MAX_LINES : lines' = n
    /\ pc' = "get_bet"
    /\ UNCHANGED <<object, game_state, disk, bet_per_line, total_bet, columns,
                   winnings, winning_lines, is_jackpot, returned, raised,
                   ghosts>>

\* lines is None ('q' or Ctrl-C at the prompt): return False
GetLinesQuit ==
    /\ InSpinCall
    /\ balance > 0
    /\ entry' = Account
    /\ Return("quit_at_lines")
    /\ UNCHANGED <<object, game_state, disk, raised, ghosts>>

\* bet_per_line = self._get_bet_per_line(), a number entered; total_bet
GetBet ==
    /\ pc = "get_bet"
    /\ \E bet \in BetChoices :
          /\ MIN_BET <= bet /\ bet <= MAX_BET
          /\ bet_per_line' = bet
          /\ total_bet' = TotalBet(lines, bet)
    /\ pc' = "check_funds"
    /\ UNCHANGED <<object, game_state, disk, lines, columns, winnings,
                   winning_lines, is_jackpot, returned, raised, entry, ghosts>>

\* bet_per_line is None: return False
GetBetQuit ==
    /\ pc = "get_bet"
    /\ Return("quit_at_bet")
    /\ UNCHANGED <<object, game_state, disk, raised, entry, ghosts>>

\* if total_bet > self.balance: return True
CheckFunds ==
    /\ pc = "check_funds"
    /\ IF CanAfford(total_bet, balance)
       THEN pc' = "confirm" /\ UNCHANGED <<returned, locals>>
       ELSE Return("insufficient_funds")
    /\ UNCHANGED <<object, game_state, disk, raised, entry, ghosts>>

\* self._get_yes_no_input("Confirm this spin?") answers yes
ConfirmYes ==
    /\ pc = "confirm"
    /\ stats.total_spins - run_start.stats.total_spins < MaxSpins
    /\ pc' = "place_bet"
    /\ UNCHANGED <<object, game_state, disk, locals, returned, raised, entry,
                   ghosts>>

\* a spin that debits the bet before it asks for the confirmation
ConfirmNoAfterDebit ==
    /\ pc = "confirm"
    /\ balance' = balance - total_bet
    /\ Return("cancelled")
    /\ UNCHANGED <<progressive_jackpot, stats, symbol_pool, ill_typed,
                   game_state, disk, raised, entry, ghosts>>

\* it answers no (or Ctrl-C): return True
ConfirmNo ==
    /\ pc = "confirm"
    /\ Return("cancelled")
    /\ UNCHANGED <<object, game_state, disk, raised, entry, ghosts>>

\* self.balance -= total_bet; self.progressive_jackpot += int(total_bet * 0.01)
PlaceBet ==
    /\ pc = "place_bet"
    /\ balance' = balance - total_bet
    /\ progressive_jackpot' = progressive_jackpot + JackpotContribution(total_bet)
    /\ pc' = "update_stats"
    /\ UNCHANGED <<stats, symbol_pool, ill_typed, game_state, disk, locals,
                   returned, raised, entry, ghosts>>

\* a spin that goes on to the draw without counting itself
UpdateStatsSkipped ==
    /\ pc = "update_stats"
    /\ pc' = "generate_spin"
    /\ UNCHANGED <<object, game_state, disk, locals, returned, raised, entry,
                   ghosts>>

\* self.stats.total_spins += 1; self.stats.total_bet += total_bet
UpdateStats ==
    /\ pc = "update_stats"
    /\ stats' = [stats EXCEPT !.total_spins = @ + 1, !.total_bet = @ + total_bet]
    /\ pc' = "generate_spin"
    /\ UNCHANGED <<balance, progressive_jackpot, symbol_pool, ill_typed,
                   game_state, disk, locals, returned, raised, entry, ghosts>>

\* columns = self._generate_spin(), then winnings, winning_lines, is_jackpot =
\* self._check_winning_lines(columns, lines, bet_per_line); or the IndexError of
\* columns[0][line], which nothing catches before run()'s finally
SpinAndCheck ==
    /\ pc = "generate_spin"
    /\ Len(symbol_pool) >= ROWS
    /\ \E grid \in generate_spin(symbol_pool) :
          LET r == check_winning_lines(grid, lines, bet_per_line, progressive_jackpot)
          IN  /\ symbol_pool' = PoolAfterSpin(symbol_pool, grid)
              /\ IF r.error = "none"
                 THEN /\ columns' = grid
                      /\ winnings' = r.total_winnings
                      /\ winning_lines' = r.winning_lines
                      /\ is_jackpot' = r.is_jackpot
                      /\ pc' = "process_winnings"
                      /\ UNCHANGED <<lines, bet_per_line, total_bet, raised>>
                 ELSE /\ raised' = r.error
                      /\ pc' = "finally"
                      /\ LocalsDropped
    /\ UNCHANGED <<balance, progressive_jackpot, stats, ill_typed, game_state,
                   disk, returned, entry, ghosts>>

\* columns = self._generate_spin() with fewer symbols in the pool than ROWS:
\* random.choice(available_symbols) on the emptied copy raises IndexError,
\* which nothing catches before run()'s finally.  The pool of SYMBOL_CONFIG
\* holds 39 symbols, so this step is no part of Next.
SpinDrawRaises ==
    /\ pc = "generate_spin"
    /\ Len(symbol_pool) < ROWS
    /\ raised' = "IndexError"
    /\ pc' = "finally"
    /\ LocalsDropped
    /\ UNCHANGED <<object, game_state, disk, returned, entry, ghosts>>

\* the `if winnings > 0` block, then return True
ProcessWinnings ==
    /\ pc = "process_winnings"
    /\ IF winnings > 0
       THEN /\ balance' = balance + winnings
            /\ stats' = StatsAfterWin(stats, winnings, is_jackpot)
            /\ progressive_jackpot' = JackpotAfterWin(progressive_jackpot, is_jackpot)
       ELSE UNCHANGED <<balance, stats, progressive_jackpot>>
    /\ Return("completed")
    /\ UNCHANGED <<symbol_pool, ill_typed, game_state, disk, raised, entry,
                   ghosts>>

(***************************************************************************)
(* run(): after _play_single_spin returns                                  *)
(***************************************************************************)
\* run() is done with the call
CallOver ==
    /\ returned' = "none"
    /\ entry' = NoEntry
    /\ pc' = "loop"
    /\ UNCHANGED locals

ReturnedFalse == returned \in {"quit_at_lines", "quit_at_bet"}

\* it returned False: self.game_state = GameState.QUIT
AfterSpinQuit ==
    /\ pc = "spin_return"
    /\ ReturnedFalse
    /\ game_state' = "quit"
    /\ CallOver
    /\ UNCHANGED <<object, disk, raised, ghosts>>

\* a loop that offers another spin whatever the balance
PlayAnotherUnfunded ==
    /\ pc = "spin_return"
    /\ ~ReturnedFalse
    /\ CallOver
    /\ UNCHANGED <<object, game_state, disk, raised, ghosts>>

\* it returned True, balance > 0, "Play another spin?" answered yes
PlayAnother ==
    /\ pc = "spin_return"
    /\ ~ReturnedFalse
    /\ balance > 0
    /\ CallOver
    /\ UNCHANGED <<object, game_state, disk, raised, ghosts>>

\* it returned True and the answer is no (or Ctrl-C), or the balance is not > 0
BackToMenu ==
    /\ pc = "spin_return"
    /\ ~ReturnedFalse
    /\ game_state' = "menu"
    /\ CallOver
    /\ UNCHANGED <<object, disk, raised, ghosts>>

(***************************************************************************)
(* The specification                                                       *)
(***************************************************************************)
Next ==
    \/ Run
    \/ MenuPlay
    \/ MenuDeposit
    \/ DepositEntered
    \/ DepositCancelled
    \/ MenuNoChange
    \/ MenuInterrupted
    \/ MenuSave
    \/ MenuQuit
    \/ LoopExit
    \/ Finally
    \/ SpinOutOfMoney
    \/ GetLines
    \/ GetLinesQuit
    \/ GetBet
    \/ GetBetQuit
    \/ CheckFunds
    \/ ConfirmYes
    \/ ConfirmNo
    \/ PlaceBet
    \/ UpdateStats
    \/ SpinAndCheck
    \/ ProcessWinnings
    \/ AfterSpinQuit
    \/ PlayAnother
    \/ BackToMenu

Spec == Init /\ [][Next]_vars

(***************************************************************************)
(* The bet step alone, over every total bet the prompts accept: the game   *)
(* after one deposit of 4900, a spin requested and confirmed.              *)
(***************************************************************************)
InitPlaceBet ==
    /\ save_file = NoFile
    /\ final_save_failed = FALSE
    /\ balance = MAX_LINES * MAX_BET
    /\ progressive_jackpot = STARTING_JACKPOT
    /\ stats = [DefaultStats EXCEPT !.sessions_played = 1]
    /\ game_state = "playing"
    /\ symbol_pool = generate_symbol_pool
    /\ ill_typed = {}
    /\ pc = "place_bet"
    /\ lines \in 1..MAX_LINES
    /\ bet_per_line \in MIN_BET..MAX_BET
    /\ total_bet = TotalBet(lines, bet_per_line)
    /\ columns = NoGrid
    /\ winnings = None
    /\ winning_lines = <<>>
    /\ is_jackpot = FALSE
    /\ returned = "none"
    /\ raised = "none"
    /\ entry = Account
    /\ run_start = [balance |-> DEFAULT_BALANCE,
                    progressive_jackpot |-> STARTING_JACKPOT,
                    stats |-> DefaultStats]
    /\ deposited = MAX_LINES * MAX_BET - DEFAULT_BALANCE
    /\ n_deposits = 1

NextPlaceBet == PlaceBet

SpecPlaceBet == InitPlaceBet /\ [][NextPlaceBet]_vars

(***************************************************************************)
(* _load_game alone, the last step of __init__, over save files of every   *)
(* shape: absent, not JSON, not an object, keys missing, values that are   *)
(* not integers, a "stats" that is not an object.                          *)
(***************************************************************************)
\* a JSON string where a number is expected: "abc"
Garbled == JsonString(<<"a", "b", "c">>)

BalanceTexts == {JsonNumber(40), Garbled}

JackpotTexts == {JsonNumber(1500), JsonNumber(0), Garbled}

StatsTexts ==
    {EarlierSave.root.members.stats,
     JsonObject([total_spins |-> JsonNumber(7)]),
     JsonObject([total_spins |-> Garbled, total_bet |-> JsonNumber(70)]),
     Garbled}

\* the values tried under a top-level key
TextsFor(key) ==
    IF key = "balance" THEN BalanceTexts
    ELSE IF key = "progressive_jackpot" THEN JackpotTexts
    ELSE StatsTexts

\* the objects with any subset of the top-level keys
SaveDocuments ==
    UNION {{d \in [keys -> BalanceTexts \cup JackpotTexts \cup StatsTexts] :
               \A k \in keys : d[k] \in TextsFor(k)} : keys \in SUBSET SaveKeys}

LoadFiles ==
    {NoFile, UnparsableFile, JsonFile(JsonNumber(5))}
        \cup {JsonFile(JsonObject(d)) : d \in SaveDocuments}

InitLoad ==
    /\ save_file \in LoadFiles
    /\ final_save_failed = FALSE
    /\ balance = Constructed.balance
    /\ progressive_jackpot = Constructed.progressive_jackpot
    /\ stats = Constructed.stats
    /\ ill_typed = Constructed.ill_typed
    /\ game_state = "menu"
    /\ symbol_pool = generate_symbol_pool
    /\ pc = "load_game"
    /\ LocalsUnbound
    /\ returned = "none"
    /\ raised = "none"
    /\ entry = NoEntry
    /\ run_start = NoEntry
    /\ deposited = 0
    /\ n_deposits = 0

\* self._load_game()
LoadGame ==
    /\ pc = "load_game"
    /\ balance' = load_game(save_file).balance
    /\ progressive_jackpot' = load_game(save_file).progressive_jackpot
    /\ stats' = load_game(save_file).stats
    /\ ill_typed' = load_game(save_file).ill_typed
    /\ pc' = "init"
    /\ UNCHANGED <<symbol_pool, game_state, disk, locals, returned, raised,
                   entry, ghosts>>

NextLoad == LoadGame

SpecLoad == InitLoad /\ [][NextLoad]_vars

(***************************************************************************)
(* The game built from a SYMBOL_CONFIG whose pool is smaller than ROWS.    *)
(* __init__ builds the pool and checks nothing, so the object exists and   *)
(* run() starts; the steps are those of Next that this game can take.      *)
(***************************************************************************)
\* a configuration of two symbols, one copy each: pool size 2, ROWS is 3
ShortSymbolConfig == << <<"diamond", 1, 50>>, <<"crown", 1, 25>> >>

InitMisconfigured ==
    /\ save_file \in InitialFiles
    /\ final_save_failed = FALSE
    /\ balance = load_game(save_file).balance
    /\ progressive_jackpot = load_game(save_file).progressive_jackpot
    /\ stats = load_game(save_file).stats
    /\ game_state = "menu"
    /\ symbol_pool = PoolOf(ShortSymbolConfig)
    /\ ill_typed = {}
    /\ pc = "init"
    /\ LocalsUnbound
    /\ returned = "none"
    /\ raised = "none"
    /\ entry = NoEntry
    /\ run_start = NoEntry
    /\ deposited = 0
    /\ n_deposits = 0

NextMisconfigured ==
    \/ Run
    \/ MenuPlay
    \/ MenuDeposit
    \/ DepositEntered
    \/ DepositCancelled
    \/ MenuNoChange
    \/ MenuInterrupted
    \/ MenuSave
    \/ MenuQuit
    \/ LoopExit
    \/ Finally
    \/ GetLines
    \/ GetLinesQuit
    \/ GetBet
    \/ GetBetQuit
    \/ CheckFunds
    \/ ConfirmYes
    \/ ConfirmNo
    \/ PlaceBet
    \/ UpdateStats
    \/ SpinDrawRaises
    \/ AfterSpinQuit
    \/ PlayAnother
    \/ BackToMenu

SpecMisconfigured == InitMisconfigured /\ [][NextMisconfigured]_vars

(***************************************************************************)
(* Vocabulary of the properties                                            *)
(***************************************************************************)
\* a call of _play_single_spin has ended, by a return or by an exception
SpinOver ==
    \/ pc = "spin_return"
    \/ pc \in {"finally", "exited"} /\ entry # NoEntry

\* the grid has been drawn and scored, the winnings are not settled yet
Scored == pc = "process_winnings"

\* row `line` (1-indexed) of the grid shows one symbol in every column
RowAllEqual(grid, line) ==
    \A c1, c2 \in 1..Len(grid) : grid[c1][line] = grid[c2][line]

StrictlyAscending(seq) ==
    \A i, j \in 1..Len(seq) : i < j => seq[i] < seq[j]

\* what a winning line is due: the jackpot for the jackpot symbol, else the
\* multiplier of SYMBOL_CONFIG times the bet per line
PayoutDue(symbol, bet, jackpot) ==
    IF symbol = JACKPOT_SYMBOL THEN jackpot
    ELSE LET i == CHOOSE j \in 1..Len(SYMBOL_CONFIG) : SYMBOL_CONFIG[j][1] = symbol
         IN  SYMBOL_CONFIG[i][3] * bet

RECURSIVE SumOver(_, _, _, _)
\* the payouts due to the lines of `won`, added up
SumOver(won, grid, bet, jackpot) ==
    IF won = {} THEN 0
    ELSE LET l == CHOOSE x \in won : TRUE
         IN  PayoutDue(grid[1][l], bet, jackpot) + SumOver(won \ {l}, grid, bet, jackpot)

JackpotLines == {l \in Range(winning_lines) : columns[1][l] = JACKPOT_SYMBOL}

(***************************************************************************)
(* C1. A spin is atomic: when a call of _play_single_spin is over, either  *)
(* it ran to its last return statement (debit, draw, evaluate, settle and  *)
(* record all done) or balance, jackpot and statistics are what they were  *)
(* at the call.                                                            *)
(***************************************************************************)
C1_SpinAtomic == SpinOver => (returned = "completed" \/ Account = entry)

(***************************************************************************)
(* C2. total_bet = lines * bet_per_line; a spin goes past the funds check  *)
(* only with total_bet <= balance, nothing is changed before the check,    *)
(* and a spin rejected for insufficient funds leaves balance, jackpot and  *)
(* statistics as they were at the call.                                    *)
(***************************************************************************)
C2_RejectedBeforeMutation ==
    /\ pc \in {"check_funds", "confirm", "place_bet"} =>
          /\ total_bet = lines * bet_per_line
          /\ Account = entry
    /\ pc \in {"confirm", "place_bet"} => total_bet <= balance
    /\ returned = "insufficient_funds" => Account = entry

\* Scenario C: balance 40, total bet 50, rejected with the balance still 40
C2_Witness ==
    /\ pc = "spin_return"
    /\ returned = "insufficient_funds"
    /\ balance = 40
    /\ entry.balance = 40

(***************************************************************************)
(* C3. For every grid and every lines_bet in 1..MAX_LINES the evaluation   *)
(* returns; winning_lines is strictly ascending, within 1..lines_bet, and  *)
(* holds line L exactly when row L-1 shows one symbol in all COLS columns. *)
(***************************************************************************)
WinningLinesCorrect ==
    /\ StrictlyAscending(winning_lines)
    /\ Range(winning_lines) \subseteq 1..lines
    /\ \A l \in 1..lines : l \in Range(winning_lines) <=> RowAllEqual(columns, l)

C3_WinningLines ==
    /\ pc = "generate_spin" =>
          \A grid \in generate_spin(symbol_pool) :
              check_winning_lines(grid, lines, bet_per_line,
                                  progressive_jackpot).error = "none"
    /\ Scored => WinningLinesCorrect

(***************************************************************************)
(* C4. total winnings are the sum, over the winning lines, of what each    *)
(* line is due, and a winning line of a symbol other than the jackpot      *)
(* symbol is due multiplier * bet_per_line.  Scenario B: 2 lines at 10,    *)
(* row 0 all stars (multiplier 5), row 1 mixed: 50, lines <<1>>, no        *)
(* jackpot.                                                                *)
(***************************************************************************)
ScenarioBGrid ==
    << <<"star", "bell", "orange">>, <<"star", "orange", "bell">>,
       <<"star", "bell", "orange">>, <<"star", "bell", "grapes">>,
       <<"star", "bell", "orange">> >>

C4_LinePayouts ==
    /\ Scored => winnings = SumOver(Range(winning_lines), columns, bet_per_line,
                                    progressive_jackpot)
    /\ Scored /\ JackpotLines = {} =>
          winnings = SumSeq([i \in 1..Len(winning_lines) |->
                               symbol_values(columns[1][winning_lines[i]])
                               * bet_per_line])
    /\ check_winning_lines(ScenarioBGrid, 2, 10, STARTING_JACKPOT)
          = [total_winnings |-> 50, winning_lines |-> <<1>>, is_jackpot |-> FALSE,
             error |-> "none"]

\* one crown line at 50 per line pays 25 * 50
C4_Witness ==
    /\ Scored
    /\ winning_lines = <<2>>
    /\ columns[1][2] = "crown"
    /\ bet_per_line = 50
    /\ winnings = 1250
    /\ ~is_jackpot

(***************************************************************************)
(* C5. A bet line filled by the jackpot symbol pays the progressive        *)
(* jackpot as it stands at evaluation, which is the jackpot at the call    *)
(* plus this spin's own contribution, not multiplier * bet_per_line; and   *)
(* is_jackpot is true for the spin.                                        *)
(***************************************************************************)
C5_JackpotLinePayout ==
    Scored /\ JackpotLines # {} =>
        /\ is_jackpot
        /\ progressive_jackpot = entry.progressive_jackpot + total_bet \div 100
        /\ winnings = Cardinality(JackpotLines) * progressive_jackpot
                      + SumOver(Range(winning_lines) \ JackpotLines, columns,
                                bet_per_line, progressive_jackpot)

\* Scenario D with a contribution: jackpot 1500 at the call, 2 lines at 50 add 1,
\* line 1 all diamonds pays 1501 (line 2, all crowns, pays 1250)
C5_Witness ==
    /\ Scored
    /\ entry.progressive_jackpot = 1500
    /\ total_bet = 100
    /\ winning_lines = <<1, 2>>
    /\ columns[1][1] = JACKPOT_SYMBOL
    /\ is_jackpot
    /\ winnings = 1501 + 1250

(***************************************************************************)
(* C6. After any spin whose outcome has is_jackpot true the progressive    *)
(* jackpot is exactly 1000, whatever it was before.                        *)
(***************************************************************************)
C6_JackpotReset ==
    [][(Scored /\ is_jackpot) => progressive_jackpot' = JACKPOT_RESET]_vars

(***************************************************************************)
(* C7. Placing an accepted bet takes exactly total_bet off the balance and *)
(* adds exactly floor(total_bet / 100) to the progressive jackpot, for     *)
(* every total_bet in 1..MAX_LINES*MAX_BET.                                *)
(***************************************************************************)
C7_BetDebitAndAccrual ==
    pc = "update_stats" =>
        /\ total_bet \in 1..(MAX_LINES * MAX_BET)
        /\ balance = entry.balance - total_bet
        /\ progressive_jackpot = entry.progressive_jackpot + total_bet \div 100

\* total bet 250 adds 2
C7_Witness ==
    /\ pc = "update_stats"
    /\ total_bet = 250
    /\ balance = entry.balance - 250
    /\ progressive_jackpot = entry.progressive_jackpot + 2

(***************************************************************************)
(* C8. In every grid drawn, a column shows no symbol more often than the   *)
(* symbol's count in SYMBOL_CONFIG, and self.symbol_pool is the pool       *)
(* _generate_symbol_pool built, before and after every draw.  Scenario A:  *)
(* from the pool <<A, B>>, 2 rows are always one A and one B.              *)
(***************************************************************************)
C8_ColumnWithoutReplacement ==
    /\ symbol_pool = generate_symbol_pool
    /\ Scored =>
          /\ Len(columns) = COLS
          /\ \A col \in 1..COLS : Len(columns[col]) = ROWS
          /\ \A symbol \in Symbols :
                LET copies == Count(symbol, symbol_pool)
                IN  \A col \in 1..COLS : Count(symbol, columns[col]) <= copies
    /\ ColumnsFrom(<<"A", "B">>, 2, {"A", "B"}) = {<<"A", "B">>, <<"B", "A">>}

\* a column that shows the crown as often as its count allows, the diamond once
C8_Witness ==
    /\ Scored
    /\ Count("crown", columns[1]) = 2
    /\ Count("diamond", columns[1]) = 1
    /\ columns[1] # columns[2]

(***************************************************************************)
(* C9. A spin aborted before the commit (confirmation declined, or quit at *)
(* the lines or the bet prompt) leaves balance, jackpot and every          *)
(* statistics counter as they were at the call.                            *)
(***************************************************************************)
Aborted == returned \in {"cancelled", "quit_at_lines", "quit_at_bet"}

C9_AbortChangesNothing == Aborted => Account = entry

\* the confirmation declined, with a bet the balance would have covered
C9_Witness ==
    /\ pc = "spin_return"
    /\ returned = "cancelled"
    /\ balance = 100
    /\ Account = entry

(***************************************************************************)
(* C10. No step of a process run decreases total_spins, total_bet,         *)
(* total_winnings, jackpots_won, sessions_played or biggest_win.           *)
(***************************************************************************)
C10_StatsMonotonic ==
    [][/\ stats'.total_spins >= stats.total_spins
       /\ stats'.total_bet >= stats.total_bet
       /\ stats'.total_winnings >= stats.total_winnings
       /\ stats'.jackpots_won >= stats.jackpots_won
       /\ stats'.sessions_played >= stats.sessions_played
       /\ stats'.biggest_win >= stats.biggest_win]_vars

\* a win of 1250 recorded while the biggest win stays the 1300 of earlier sessions
C10_Witness ==
    /\ pc = "spin_return"
    /\ returned = "completed"
    /\ stats.total_winnings = entry.stats.total_winnings + 1250
    /\ stats.biggest_win = 1300
    /\ stats.total_spins = entry.stats.total_spins + 1

(***************************************************************************)
(* C11. The settlement of a scored spin leaves the statistics at exactly:  *)
(* total_spins and total_bet of the call plus 1 and plus total_bet;        *)
(* total_winnings plus the winnings and biggest_win the maximum of itself  *)
(* and the winnings when the winnings are positive; jackpots_won plus 1    *)
(* if and only if the outcome is a jackpot; sessions_played as it was.     *)
(***************************************************************************)
\* the statistics the claim prescribes after a completed spin
StatsDue(before, bet, won, jackpot_hit) ==
    [total_spins |-> before.total_spins + 1,
     total_bet |-> before.total_bet + bet,
     total_winnings |-> IF won > 0 THEN before.total_winnings + won
                        ELSE before.total_winnings,
     biggest_win |-> IF won > 0 /\ won > before.biggest_win THEN won
                     ELSE before.biggest_win,
     jackpots_won |-> IF jackpot_hit THEN before.jackpots_won + 1
                      ELSE before.jackpots_won,
     sessions_played |-> before.sessions_played]

C11_StatsPerSpin ==
    [][Scored => stats' = StatsDue(entry.stats, total_bet, winnings, is_jackpot)]_vars

(***************************************************************************)
(* C12. After _load_game every field is an integer, and a field whose key  *)
(* is missing or does not hold a number, in a file that is missing, is not *)
(* JSON or is not an object, or under a "stats" that is not an object, has *)
(* its default: balance 100, progressive_jackpot 1000, each statistic 0.   *)
(***************************************************************************)
\* the integer under `key`, or `default` when the key is missing or malformed
NumberOr(members, key, default) ==
    IF key \in DOMAIN members /\ members[key].type = "number"
    THEN TextToInt(members[key].text)
    ELSE default

\* the members of a value when it is an object, none otherwise
MembersOf(json) == IF json.type = "object" THEN json.members ELSE NoMembers

\* the fields the claim prescribes for a save file
DueAfterLoad(file) ==
    LET save_data == IF file.exists /\ file.parses THEN MembersOf(file.root)
                     ELSE NoMembers
        stats_data == IF "stats" \in DOMAIN save_data
                      THEN MembersOf(save_data.stats)
                      ELSE NoMembers
    IN  [balance |-> NumberOr(save_data, "balance", DEFAULT_BALANCE),
         progressive_jackpot |->
             NumberOr(save_data, "progressive_jackpot", STARTING_JACKPOT),
         stats |-> [k \in StatKeys |-> NumberOr(stats_data, k, DefaultStats[k])]]

C12_LoadFallsBackToDefaults ==
    pc = "init" => (ill_typed = {} /\ Account = DueAfterLoad(save_file))

(***************************************************************************)
(* C13. In every reachable state, _load_game applied to the file that      *)
(* _save_game writes of the present fields yields the present balance,     *)
(* progressive_jackpot and the six statistics, each of them an integer.    *)
(***************************************************************************)
C13_SaveLoadRoundTrip ==
    LET loaded == load_game(save_game)
    IN  /\ loaded.balance = balance
        /\ loaded.progressive_jackpot = progressive_jackpot
        /\ \A k \in StatKeys : loaded.stats[k] = stats[k]
        /\ loaded.ill_typed = {}

\* the file written from the menu after a deposit and a winning spin
C13_Witness ==
    /\ pc = "loop"
    /\ game_state = "menu"
    /\ save_file = save_game
    /\ deposited > 0
    /\ stats.total_spins = 121
    /\ stats.total_winnings > 50000
    /\ progressive_jackpot = 1500

(***************************************************************************)
(* C14, as stated.  Once run() is over, however its loop ended, the save   *)
(* file holds the balance, progressive_jackpot and statistics of memory.   *)
(***************************************************************************)
C14_ExitPersisted == pc = "exited" => save_file = save_game

(***************************************************************************)
(* C14, amended.  Whenever the loop has ended (quit from the menu, quit at *)
(* a prompt, Ctrl-C, an error raised in a spin) the call of _save_game is  *)
(* the step that follows, and once run() is over either the save file      *)
(* holds the balance, progressive_jackpot and statistics of memory or the  *)
(* write failed and the warning was printed.                               *)
(***************************************************************************)
C14_ExitSaveAttempted ==
    /\ pc = "finally" => ENABLED Finally
    /\ pc = "exited" => (final_save_failed \/ save_file = save_game)

\* run() left by the IndexError of a spin, the debited state written
C14_Witness ==
    /\ pc = "exited"
    /\ raised = "IndexError"
    /\ ~final_save_failed
    /\ save_file = save_game
    /\ balance < entry.balance
    /\ stats.total_spins = entry.stats.total_spins + 1

(***************************************************************************)
(* C15. A game whose pool holds fewer symbols than ROWS is stopped before  *)
(* it can draw: the failure of a draw (the IndexError of random.choice on  *)
(* an emptied pool) never leaves run(), whether or not a bet was debited.  *)
(***************************************************************************)
C15_MisconfigurationRejected == Len(symbol_pool) < ROWS => raised # "IndexError"

(***************************************************************************)
(* C16. The step that answers the deposit prompt either credits an amount  *)
(* in 1..10000 to the balance, exactly, or, cancelled, leaves the balance  *)
(* as it was; either way progressive_jackpot and the statistics are as     *)
(* before.  No other step counts as a deposit.                             *)
(***************************************************************************)
C16_DepositFrame ==
    [][IF pc = "get_deposit_amount"
       THEN /\ progressive_jackpot' = progressive_jackpot
            /\ stats' = stats
            /\ balance' - balance = deposited' - deposited
            /\ \/ /\ n_deposits' = n_deposits + 1
                  /\ balance' - balance \in MIN_DEPOSIT..MAX_DEPOSIT
               \/ /\ n_deposits' = n_deposits
                  /\ balance' = balance
       ELSE deposited' = deposited /\ n_deposits' = n_deposits]_vars

\* 200 deposited into the 40 of the earlier sessions, nothing else touched
C16_Witness ==
    /\ pc = "loop"
    /\ n_deposits = 1
    /\ deposited = 200
    /\ balance = 240
    /\ progressive_jackpot = run_start.progressive_jackpot
    /\ stats = [run_start.stats EXCEPT !.sessions_played = @ + 1]

(***************************************************************************)
(* C17, as stated.  From the prompts of a spin until its grid has been     *)
(* drawn and scored, total_spins and total_bet are what they were at the   *)
(* call.                                                                   *)
(***************************************************************************)
BeforeScoring ==
    pc \in {"get_bet", "check_funds", "confirm", "place_bet", "update_stats",
            "generate_spin"}

Debited ==
    /\ total_bet <= entry.balance
    /\ balance = entry.balance - total_bet
    /\ progressive_jackpot = entry.progressive_jackpot + total_bet \div 100

\* the statistics after the count of this call, no winnings recorded
Counted ==
    stats = [entry.stats EXCEPT !.total_spins = @ + 1, !.total_bet = @ + total_bet]

C18_BalanceNonNegative == run_start.balance >= 0 /\ balance >= 0

\* the whole balance of a fresh game bet on two lines and lost
C18_Witness ==
    /\ pc = "spin_return"
    /\ returned = "completed"
    /\ entry.balance = DEFAULT_BALANCE
    /\ balance = 0
    /\ stats.total_winnings = entry.stats.total_winnings

(***************************************************************************)
(* C19. The pool holds the jackpot symbol once, so in a scored grid no     *)
(* column shows it twice, at most one winning line is a jackpot line, and  *)
(* the winnings hold the progressive jackpot at most once: they are the    *)
(* jackpot, if the spin is a jackpot, plus the payouts of the other lines. *)
(***************************************************************************)
C19_JackpotAtMostOnce ==
    /\ Count(JACKPOT_SYMBOL, symbol_pool) = 1
    /\ Scored =>
          /\ \A col \in 1..COLS : Count(JACKPOT_SYMBOL, columns[col]) <= 1
          /\ Cardinality(JackpotLines) <= 1
          /\ is_jackpot <=> Cardinality(JackpotLines) = 1
          /\ winnings = (IF is_jackpot THEN progressive_jackpot ELSE 0)
                        + SumOver(Range(winning_lines) \ JackpotLines, columns,
                                  bet_per_line, progressive_jackpot)

\* three lines bet and won, one of them the jackpot line, two crown lines
C19_Witness ==
    /\ Scored
    /\ lines = 3
    /\ Len(winning_lines) = 3
    /\ Cardinality(JackpotLines) = 1
    /\ progressive_jackpot > 0
    /\ winnings = progressive_jackpot + 2 * symbol_values("crown") * bet_per_line

(***************************************************************************)
(* C20, as stated.  In every state of a process run the balance is the     *)
(* balance at the start of the run, plus the deposits, minus the growth of *)
(* stats.total_bet, plus the growth of stats.total_winnings.               *)
(***************************************************************************)
\* what the statistics and the deposits of this run say the balance is
LedgerBalance ==
    run_start.balance + deposited
        - (stats.total_bet - run_start.stats.total_bet)
        + (stats.total_winnings - run_start.stats.total_winnings)

InRun == pc # "init"

StartingJackpotOfRun ==
    IF pc = "init" THEN progressive_jackpot ELSE run_start.progressive_jackpot

C21_JackpotFloor ==
    /\ [](StartingJackpotOfRun >= STARTING_JACKPOT
            => /\ progressive_jackpot >= STARTING_JACKPOT
               /\ Scored /\ JackpotLines # {} => winnings > 0)
    /\ [][StartingJackpotOfRun >= STARTING_JACKPOT
            => \/ progressive_jackpot' = progressive_jackpot
               \/ /\ pc = "place_bet"
                  /\ progressive_jackpot' = progressive_jackpot + total_bet \div 100
               \/ /\ Scored
                  /\ progressive_jackpot' = JACKPOT_RESET]_vars

\* a jackpot of 1500 won and paid, the jackpot back at 1000
C21_Witness ==
    /\ pc = "spin_return"
    /\ returned = "completed"
    /\ entry.progressive_jackpot = 1500
    /\ progressive_jackpot = JACKPOT_RESET
    /\ stats.jackpots_won = entry.stats.jackpots_won + 1
    /\ balance >= entry.balance - 50 + 1500

(***************************************************************************)
(* C22.  The loop of run() never spins on an empty account: a call of      *)
(* _play_single_spin with balance <= 0 returns at once, no bet requested   *)
(* (no local bound) and nothing debited, the account and the statistics    *)
(* as they were at the call, and the step of run() that follows sets the   *)
(* game state to MENU; a bet is requested only in a call entered with a    *)
(* balance > 0.  The game state moves only MENU->MENU, MENU->PLAYING,      *)
(* MENU->QUIT, PLAYING->PLAYING, PLAYING->MENU and PLAYING->QUIT; it is    *)
(* never PAUSED, and once QUIT it stays QUIT.                              *)
(***************************************************************************)
GameStateTransitions ==
    {<<"menu", "menu">>, <<"menu", "playing">>, <<"menu", "quit">>,
     <<"playing", "playing">>, <<"playing", "menu">>, <<"playing", "quit">>}

OutOfMoneyReturn == pc = "spin_return" /\ returned = "out_of_money"

BetRequested == lines # None

C22_NoSpinOnEmptyAccount ==
    /\ [](/\ game_state \in GameState \ {"paused"}
          /\ OutOfMoneyReturn => /\ game_state = "playing"
                                 /\ balance <= 0
                                 /\ Account = entry
                                 /\ LocalsUnbound
          /\ BetRequested => entry.balance > 0)
    /\ [][/\ (InSpinCall /\ balance <= 0)
              => /\ OutOfMoneyReturn'
                 /\ Account' = Account
                 /\ game_state' = game_state
          /\ OutOfMoneyReturn
              => /\ game_state' = "menu"
                 /\ Account' = Account
          /\ game_state = "quit" => game_state' = "quit"
          /\ game_state # "quit"
              => <<game_state, game_state'>> \in GameStateTransitions]_vars

\* the last credit lost, the menu left for another spin, and the call back
\* at once with the account untouched
C22_Witness ==
    /\ OutOfMoneyReturn
    /\ game_state = "playing"
    /\ balance = 0
    /\ stats.total_spins = 1
    /\ stats.total_bet = 100
    /\ Account = entry

====
